---- MODULE Spec2Model ----
(***************************************************************************)
(* Model of electron/native-addon/src/cs2_window_tracker.cpp: the global   *)
(* WinEvent hook subscription (g_hookState, StartWinEventHook,             *)
(* StopWinEventHook, WinEventProc) and the window query EnumProc /         *)
(* FindWindowByPid.                                                        *)
(***************************************************************************)
EXTENDS Integers, Sequences, FiniteSets, TLC

----------------------------------------------------------------------------
(* Win32 constants, lines 12-18, and the two winuser.h values of line 46.  *)

EVENT_OBJECT_LOCATIONCHANGE == 32779
EVENT_SYSTEM_MOVESIZESTART == 10
EVENT_SYSTEM_MOVESIZEEND == 11
EVENT_SYSTEM_MINIMIZESTART == 22
EVENT_SYSTEM_MINIMIZEEND == 23
EVENT_SYSTEM_FOREGROUND == 3
EVENT_OBJECT_DESTROY == 32769
\* EVENT_OBJECT_SHOW: a code WinEventProc has no case for (taken by "default:").
EVENT_OBJECT_SHOW == 32770
OBJID_WINDOW == 0
\* OBJID_CLIENT: an object id other than OBJID_WINDOW.
OBJID_CLIENT == -4
CHILDID_SELF == 0
NULL == 0

----------------------------------------------------------------------------
(* Bounds of the model.                                                    *)

\* process ids 1..MaxPid
MaxPid == 2
\* JavaScript functions 1..MaxCallback that a caller can pass as the handler
MaxCallback == 2
\* at most MaxWindows top-level windows exist when EnumWindows runs
MaxWindows == 2
\* window rectangles have sides 0..MaxSide
MaxSide == 2
\* heap cells 1..MaxAddr that operator new can return for a HookState
MaxAddr == 2
MaxThread == 2

Pids == 1..MaxPid
Callbacks == 1..MaxCallback
Addrs == 1..MaxAddr
\* Window handles: window h was created by process OwnerOf(h).
Hwnds == 1..MaxPid
OwnerOf(hwnd) == hwnd
\* the handle value as it crosses the boundary (distinct from every pid)
HwndValue(hwnd) == 100 + hwnd

EventCodes == { EVENT_OBJECT_LOCATIONCHANGE, EVENT_SYSTEM_MOVESIZESTART,
                EVENT_SYSTEM_MOVESIZEEND, EVENT_SYSTEM_MINIMIZESTART,
                EVENT_SYSTEM_MINIMIZEEND, EVENT_SYSTEM_FOREGROUND,
                EVENT_OBJECT_DESTROY, EVENT_OBJECT_SHOW }

----------------------------------------------------------------------------
(* State.                                                                  *)

VARIABLES
  g_hookState,  \* the global pointer: NULL or the address of a HookState
  heap,         \* the HookState cells, by address
  osHooks,      \* the registrations the OS holds: [hook, eventMin, eventMax]
  given,        \* the (pid, callback) of the latest start call with valid
                \* arguments, and the callback registered when it was made
  call,         \* the call being made: inputs, state before it, outcome
  desktop,      \* the top-level windows, in the order EnumWindows reports them
  query,        \* the FindWindowByPid call being made
  ctl,          \* the thread in StartWinEventHook / StopWinEventHook, by statement
  disp,         \* the thread in WinEventProc, by statement
  act,          \* the ForceActivateWindow call being made, and the input links
  dpi           \* the GetDpiScaleForHwnd call being made

hookVars == <<g_hookState, heap, osHooks, given, call>>
findVars == <<desktop, query>>
raceVars == <<ctl, disp>>
utilVars == <<act, dpi>>
vars == <<g_hookState, heap, osHooks, given, call, desktop, query, ctl, disp,
          act, dpi>>

\* struct HookState, with alloc = FALSE for a cell that is not allocated
FreeCell == [alloc |-> FALSE, targetPid |-> 0, jsCallback |-> 0,
             hookHandle1 |-> NULL, hookHandle2 |-> NULL,
             hookHandle3 |-> NULL, hookHandle4 |-> NULL]

\* the non-null hook handles a HookState holds
Handles(rec) ==
  {rec.hookHandle1, rec.hookHandle2, rec.hookHandle3, rec.hookHandle4} \ {NULL}

\* the hook handles the OS holds as live registrations
LiveTokens(os) == {r.hook : r \in os}

\* the program state a call works on
Snapshot == [g |-> g_hookState, heap |-> heap, os |-> osHooks]

\* JavaScript values at the boundary (Napi::Value)
JsNumber(n) == [kind |-> "number", val |-> n]
JsFunction(f) == [kind |-> "function", val |-> f]
JsString == [kind |-> "string", val |-> 0]
JsNull == [kind |-> "null", val |-> 0]
JsBigInt(n) == [kind |-> "bigint", val |-> n]

\* The values of the variables when no call is being made.
NoEvent == [type |-> "none"]
NoNotification == [event |-> 0, hwnd |-> 0, idObject |-> 0, idChild |-> 0,
                   gone |-> FALSE, garbage |-> 0]
NoStart == [pid |-> 0, cb |-> 0, old |-> 0]
InitialState == [g |-> NULL, heap |-> [a \in Addrs |-> FreeCell], os |-> {}]
Idle == [op |-> "idle", info |-> <<>>, oks |-> <<>>, ev |-> NoNotification,
         pre |-> InitialState, err |-> "none", trace |-> <<>>,
         called |-> 0, obj |-> NoEvent]
NoEnumData == [pid |-> 0, bestHwnd |-> NULL, bestArea |-> 0]
NoQuery == [pc |-> "idle", info |-> <<>>, data |-> NoEnumData, pos |-> 0,
            result |-> JsNull, err |-> "none"]
CtlIdle == [pc |-> "idle", op |-> "none", info |-> <<>>, oks |-> <<>>]
DispIdle == [pc |-> "idle", ev |-> NoNotification, p |-> NULL, windowPid |-> 0,
             fault |-> "none", called |-> 0, obj |-> NoEvent]
NoActivateOs == [isWindow |-> FALSE, fgHwnd |-> NULL, fgThreadId |-> 0,
                 currentThreadId |-> 0, iconic |-> FALSE, attachOk |-> FALSE,
                 foregroundOk |-> FALSE]
ActIdle == [pc |-> "idle", info |-> <<>>, os |-> NoActivateOs, links |-> {},
            trace |-> <<>>, result |-> FALSE, err |-> "none"]
NoDpiOs == [user32 |-> FALSE, hasGetDpiForWindow |-> FALSE, windowDpi |-> 0,
            systemDpi |-> 0]
DpiIdle == [pc |-> "idle", info |-> <<>>, os |-> NoDpiOs, trace |-> <<>>,
            result |-> JsNull, err |-> "none"]

----------------------------------------------------------------------------
(* The OS side of the hook API.  A call works on a record                  *)
(* st = [g, heap, os, trace]: the global pointer, the heap, the OS         *)
(* registrations, and the OS calls made so far in this call.               *)

\* A fresh HWINEVENTHOOK value: handle values are opaque and only compared
\* for identity, so the least value not in use stands for any fresh value.
FreshToken(os) ==
  CHOOSE t \in 1..(Cardinality(os) + 1) :
    /\ t \notin LiveTokens(os)
    /\ \A u \in 1..(Cardinality(os) + 1) : u \notin LiveTokens(os) => t <= u

\* SetWinEventHook(eventMin, eventMax, NULL, WinEventProc, 0, 0, flags):
\* the OS either registers the range and returns a fresh handle, or fails
\* and returns NULL (ok is the OS's choice).  Returns <<st', handle>>.
SetWinEventHook(st, eventMin, eventMax, ok) ==
  IF ok
  THEN LET t == FreshToken(st.os) IN
       << [st EXCEPT
             !.os = @ \cup {[hook |-> t, eventMin |-> eventMin, eventMax |-> eventMax]},
             !.trace = Append(@, [call |-> "SetWinEventHook", arg |-> t])],
          t >>
  ELSE << [st EXCEPT !.trace = Append(@, [call |-> "SetWinEventHook", arg |-> NULL])],
          NULL >>

\* UnhookWinEvent(h): the OS drops the registration h.
UnhookWinEvent(st, h) ==
  [st EXCEPT !.os = {r \in @ : r.hook # h},
             !.trace = Append(@, [call |-> "UnhookWinEvent", arg |-> h])]

\* the registration r covers the event code: eventMin is the lowest and
\* eventMax the highest event the hook function is called for
Covers(r, event) == r.eventMin <= event /\ event <= r.eventMax

\* "if (g_hookState->hookHandleN) { UnhookWinEvent(g_hookState->hookHandleN); }"
UnhookIfSet(st, h) == IF h # NULL THEN UnhookWinEvent(st, h) ELSE st

----------------------------------------------------------------------------
(* Conversions at the boundary.                                            *)

\* Napi::Number::Uint32Value(): the number modulo 2^32, which for the
\* numbers 1..MaxPid passed here (all below 2^32) is the number itself
Uint32Value(v) == v.val

\* Napi::FunctionReference: 0 is the empty reference, f > 0 refers to f.
\* Napi::Persistent(fn) refers to fn; Reset() makes the reference empty.
Persistent(v) == v.val
IsEmpty(ref) == ref = 0

----------------------------------------------------------------------------
(* StartWinEventHook, lines 404-501, and StopWinEventHook, lines 504-530.  *)

\* line 407, negated: the arguments are (number pid, function callback)
ValidStartArgs(info) ==
  ~ (Len(info) < 2 \/ info[1].kind # "number" \/ info[2].kind # "function")

\* "g_hookState->jsCallback.Reset(); delete g_hookState; g_hookState = nullptr;"
ResetAndDelete(st) ==
  [st EXCEPT !.heap = [@ EXCEPT ![st.g] = FreeCell],
             !.g = NULL,
             !.trace = @ \o << [call |-> "Reset", arg |-> st.heap[st.g].jsCallback],
                               [call |-> "delete", arg |-> st.g] >>]

\* StopExisting without the release of the fourth hook
StopExisting_KeepsHook4(st) ==
  IF st.g # NULL
  THEN LET rec == st.heap[st.g]
           u1 == UnhookIfSet(st, rec.hookHandle1)
           u2 == UnhookIfSet(u1, rec.hookHandle2)
           u3 == UnhookIfSet(u2, rec.hookHandle3)
       IN ResetAndDelete(u3)
  ELSE st

\* lines 412-429: "Stop existing hook if any"
StopExisting(st) ==
  IF st.g # NULL
  THEN LET rec == st.heap[st.g]
           u1 == UnhookIfSet(st, rec.hookHandle1)
           u2 == UnhookIfSet(u1, rec.hookHandle2)
           u3 == UnhookIfSet(u2, rec.hookHandle3)
           u4 == UnhookIfSet(u3, rec.hookHandle4)
       IN ResetAndDelete(u4)
  ELSE st

\* lines 431-438: "Create new hook state" in the heap cell addr
CreateHookState(st, info, addr) ==
  [st EXCEPT !.g = addr,
             !.heap = [@ EXCEPT ![addr] =
                         [alloc |-> TRUE,
                          targetPid |-> Uint32Value(info[1]),
                          jsCallback |-> Persistent(info[2]),
                          hookHandle1 |-> NULL, hookHandle2 |-> NULL,
                          hookHandle3 |-> NULL, hookHandle4 |-> NULL]],
             !.trace = @ \o << [call |-> "new", arg |-> addr],
                               [call |-> "Persistent", arg |-> Persistent(info[2])] >>]

\* the four ranges of lines 442-483, as <<eventMin, eventMax>>
HookRange1 == <<EVENT_OBJECT_LOCATIONCHANGE, EVENT_OBJECT_DESTROY>>
HookRange2 == <<EVENT_SYSTEM_MOVESIZESTART, EVENT_SYSTEM_MOVESIZEEND>>
HookRange3 == <<EVENT_SYSTEM_MINIMIZESTART, EVENT_SYSTEM_MINIMIZEEND>>
HookRange4 == <<EVENT_SYSTEM_FOREGROUND, EVENT_SYSTEM_FOREGROUND>>

\* The OS calls WinEventProc for an event that a live registration covers.
\* With WINEVENT_OUTOFCONTEXT notifications are queued, so one can still
\* arrive once the registrations are released; it is then for an event that
\* one of the four ranges covers.
Deliverable(os, event) ==
  IF os # {}
  THEN \E r \in os : Covers(r, event)
  ELSE \E rg \in {HookRange1, HookRange2, HookRange3, HookRange4} :
         Covers([eventMin |-> rg[1], eventMax |-> rg[2]], event)

\* lines 440-483: the four registrations; oks[i] is the OS's answer to the i-th
RegisterHooks(st, oks) ==
  LET r1 == SetWinEventHook(st, HookRange1[1], HookRange1[2], oks[1])
      s1 == [r1[1] EXCEPT !.heap[st.g].hookHandle1 = r1[2]]
      r2 == SetWinEventHook(s1, HookRange2[1], HookRange2[2], oks[2])
      s2 == [r2[1] EXCEPT !.heap[st.g].hookHandle2 = r2[2]]
      r3 == SetWinEventHook(s2, HookRange3[1], HookRange3[2], oks[3])
      s3 == [r3[1] EXCEPT !.heap[st.g].hookHandle3 = r3[2]]
      r4 == SetWinEventHook(s3, HookRange4[1], HookRange4[2], oks[4])
      s4 == [r4[1] EXCEPT !.heap[st.g].hookHandle4 = r4[2]]
  IN s4

\* AllHooksFailed with || for &&: some hook was not set
AllHooksFailed_Any(rec) ==
  \/ rec.hookHandle1 = NULL \/ rec.hookHandle2 = NULL
  \/ rec.hookHandle3 = NULL \/ rec.hookHandle4 = NULL

\* line 487: no hook was set
AllHooksFailed(rec) ==
  /\ rec.hookHandle1 = NULL /\ rec.hookHandle2 = NULL
  /\ rec.hookHandle3 = NULL /\ rec.hookHandle4 = NULL

\* CheckHooks that throws without discarding the new state
CheckHooks_KeepsState(st) ==
  IF AllHooksFailed(st.heap[st.g])
  THEN [st |-> st, err |-> "Error"]
  ELSE [st |-> st, err |-> "none"]

\* lines 485-500: discard the new state and throw if no hook was set
CheckHooks(st) ==
  IF AllHooksFailed(st.heap[st.g])
  THEN [st |-> ResetAndDelete(st), err |-> "Error"]
  ELSE [st |-> st, err |-> "none"]

\* StartBody that leaves a subscription that exists in place
StartBody_KeepsExisting(st, info, oks, addr) ==
  IF ~ ValidStartArgs(info)
  THEN [st |-> st, err |-> "TypeError"]
  ELSE IF st.g # NULL
       THEN [st |-> st, err |-> "none"]
       ELSE CheckHooks(RegisterHooks(CreateHookState(st, info, addr), oks))

\* StartBody that stops the existing subscription before it checks the arguments
StartBody_StopsFirst(st, info, oks, addr) ==
  IF ~ ValidStartArgs(info)
  THEN [st |-> StopExisting(st), err |-> "TypeError"]
  ELSE CheckHooks(RegisterHooks(CreateHookState(StopExisting(st), info, addr), oks))

\* StartBody that installs the new subscription before it stops the old one
StartBody_InstallFirst(st, info, oks, addr) ==
  IF ~ ValidStartArgs(info)
  THEN [st |-> st, err |-> "TypeError"]
  ELSE LET new == RegisterHooks(CreateHookState(st, info, addr), oks)
           old == StopExisting([new EXCEPT !.g = st.g])
       IN CheckHooks([old EXCEPT !.g = addr])

\* The whole of StartWinEventHook on the state st: [st, err].
StartBody(st, info, oks, addr) ==
  IF ~ ValidStartArgs(info)
  THEN [st |-> st, err |-> "TypeError"]
  ELSE CheckHooks(RegisterHooks(CreateHookState(StopExisting(st), info, addr), oks))

\* StopBody without the release of the fourth hook
StopBody_KeepsHook4(st) ==
  IF st.g # NULL
  THEN LET rec == st.heap[st.g]
           u1 == UnhookIfSet(st, rec.hookHandle1)
           u2 == UnhookIfSet(u1, rec.hookHandle2)
           u3 == UnhookIfSet(u2, rec.hookHandle3)
       IN [st |-> ResetAndDelete(u3), err |-> "none"]
  ELSE [st |-> st, err |-> "none"]

\* StopBody that releases the hooks and leaves the record and its handler
StopBody_KeepsRecord(st) ==
  IF st.g # NULL
  THEN LET rec == st.heap[st.g]
           u1 == UnhookIfSet(st, rec.hookHandle1)
           u2 == UnhookIfSet(u1, rec.hookHandle2)
           u3 == UnhookIfSet(u2, rec.hookHandle3)
           u4 == UnhookIfSet(u3, rec.hookHandle4)
       IN [st |-> u4, err |-> "none"]
  ELSE [st |-> st, err |-> "none"]

\* The whole of StopWinEventHook on the state st: [st, err].
StopBody(st) ==
  IF st.g # NULL
  THEN LET rec == st.heap[st.g]
           u1 == UnhookIfSet(st, rec.hookHandle1)
           u2 == UnhookIfSet(u1, rec.hookHandle2)
           u3 == UnhookIfSet(u2, rec.hookHandle3)
           u4 == UnhookIfSet(u3, rec.hookHandle4)
       IN [st |-> ResetAndDelete(u4), err |-> "none"]
  ELSE [st |-> st, err |-> "none"]

----------------------------------------------------------------------------
(* WinEventProc, lines 37-114.                                             *)

\* GetWindowThreadProcessId(hwnd, &windowPid) on "DWORD windowPid;" (lines
\* 52-53, 72-73): for an existing window it stores the owner's pid; for a
\* window that is gone when the queued notification is handled it fails and
\* stores nothing, and the value then read is the uninitialised one.
GetWindowThreadProcessId(hwnd, gone, garbage) ==
  IF ~ gone THEN OwnerOf(hwnd) ELSE garbage

\* EventTypeOf that names EVENT_SYSTEM_MOVESIZEEND after the constant
EventTypeOf_MoveSizeEnd(event) ==
  CASE event = EVENT_OBJECT_LOCATIONCHANGE -> "locationchange"
    [] event = EVENT_SYSTEM_MOVESIZESTART -> "movestart"
    [] event = EVENT_SYSTEM_MOVESIZEEND -> "movesizeend"
    [] event = EVENT_SYSTEM_MINIMIZESTART -> "minimizestart"
    [] event = EVENT_SYSTEM_MINIMIZEEND -> "minimizeend"
    [] event = EVENT_OBJECT_DESTROY -> "destroy"
    [] OTHER -> ""

\* the switch of lines 80-101; "" stands for "default: return"
EventTypeOf(event) ==
  CASE event = EVENT_OBJECT_LOCATIONCHANGE -> "locationchange"
    [] event = EVENT_SYSTEM_MOVESIZESTART -> "movestart"
    [] event = EVENT_SYSTEM_MOVESIZEEND -> "moveend"
    [] event = EVENT_SYSTEM_MINIMIZESTART -> "minimizestart"
    [] event = EVENT_SYSTEM_MINIMIZEEND -> "minimizeend"
    [] event = EVENT_OBJECT_DESTROY -> "destroy"
    [] OTHER -> ""

\* jsCallback.Call({ eventObj }): the handler invoked and the object it gets;
\* trace holds the invocations made, in order
Call(ref, eventObj) ==
  [called |-> ref, obj |-> eventObj, trace |-> <<[call |-> "Call", arg |-> ref]>>]
NoCall == [called |-> 0, obj |-> NoEvent, trace |-> <<>>]

\* Dropped without the test of the child id
Dropped_AnyChild(g, idObject, idChild) ==
  g = NULL \/ idObject # OBJID_WINDOW

\* line 46: the notification is dropped at once
Dropped(g, idObject, idChild) ==
  g = NULL \/ idObject # OBJID_WINDOW \/ idChild # CHILDID_SELF

\* lines 51-69: the foreground branch, on the HookState rec
ForegroundBranch(rec, hwnd, gone, garbage) ==
  LET windowPid == GetWindowThreadProcessId(hwnd, gone, garbage) IN
  IF ~ IsEmpty(rec.jsCallback)
  THEN Call(rec.jsCallback,
            [type |-> "foreground", hwnd |-> HwndValue(hwnd), pid |-> windowPid])
  ELSE NoCall

\* lines 71-113: every other event, on the HookState rec
OtherBranch(rec, event, hwnd, gone, garbage) ==
  LET windowPid == GetWindowThreadProcessId(hwnd, gone, garbage)
      eventType == EventTypeOf(event)
  IN IF windowPid # rec.targetPid THEN NoCall
     ELSE IF eventType = "" THEN NoCall
     ELSE IF ~ IsEmpty(rec.jsCallback)
          THEN Call(rec.jsCallback, [type |-> eventType, hwnd |-> HwndValue(hwnd)])
          ELSE NoCall

\* The whole of WinEventProc when nothing runs beside it.
WinEventProcBody(g, hp, ev) ==
  IF Dropped(g, ev.idObject, ev.idChild) THEN NoCall
  ELSE IF ev.event = EVENT_SYSTEM_FOREGROUND
       THEN ForegroundBranch(hp[g], ev.hwnd, ev.gone, ev.garbage)
       ELSE OtherBranch(hp[g], ev.event, ev.hwnd, ev.gone, ev.garbage)

----------------------------------------------------------------------------
(* EnumProc, lines 139-180, and FindWindowByPid, lines 183-203.            *)

\* What the Win32 queries of EnumProc answer for one window: IsWindowVisible,
\* GetWindowThreadProcessId, GetWindowLongPtr(GWL_EXSTYLE) & WS_EX_TOOLWINDOW,
\* GetWindowTextW's length, GetWindowRect's success and rectangle.
\* Rectangles are squares at the origin.  A window is owned by any process
\* and fails at most one of the tests of lines 143, 156 and 163, and one
\* that fails a test has the largest rectangle (to skip the test would
\* select it).
Rects == {[left |-> 0, top |-> 0, right |-> x, bottom |-> x] : x \in 0..MaxSide}
FailedTests(w) ==
  {t \in {"visible", "tool", "title"} :
     \/ t = "visible" /\ ~ w.visible
     \/ t = "tool" /\ w.tool
     \/ t = "title" /\ w.titleLen = 0}
WindowAttrs ==
  { w \in [visible : BOOLEAN, pid : Pids, tool : BOOLEAN, titleLen : {0, 1},
           rectOk : BOOLEAN, rect : Rects] :
      /\ Cardinality(FailedTests(w)) <= 1
      /\ FailedTests(w) # {} => (w.rectOk /\ w.rect.right = MaxSide)
      /\ ~ w.rectOk => w.rect.right = 0 }

\* the enumerations: the i-th window reported has handle i
Desktops == UNION {[1..n -> WindowAttrs] : n \in 0..MaxWindows}

\* EnumProc with "area > ed->bestArea" written ">="
EnumProc_LastWins(hwnd, ed, w) ==
  IF ~ w.visible THEN ed
  ELSE IF w.pid # ed.pid THEN ed
  ELSE IF w.tool THEN ed
  ELSE IF w.titleLen = 0 THEN ed
  ELSE LET area == IF w.rectOk
                   THEN (w.rect.right - w.rect.left) * (w.rect.bottom - w.rect.top)
                   ELSE 0
       IN IF area >= ed.bestArea
          THEN [ed EXCEPT !.bestHwnd = hwnd, !.bestArea = area]
          ELSE ed

\* EnumProc(hwnd, lParam) on the window w: the EnumData after the call
\* (the callback always returns TRUE, so the enumeration goes on)
EnumProc(hwnd, ed, w) ==
  IF ~ w.visible THEN ed
  ELSE IF w.pid # ed.pid THEN ed
  ELSE IF w.tool THEN ed
  ELSE IF w.titleLen = 0 THEN ed
  ELSE LET area == IF w.rectOk
                   THEN (w.rect.right - w.rect.left) * (w.rect.bottom - w.rect.top)
                   ELSE 0
       IN IF area > ed.bestArea
          THEN [ed EXCEPT !.bestHwnd = hwnd, !.bestArea = area]
          ELSE ed

\* line 186, negated
ValidFindArgs(info) == ~ (Len(info) < 1 \/ info[1].kind # "number")

FindArgLists == {<<JsNumber(p)>> : p \in Pids} \cup {<<>>, <<JsString>>}

\* lines 183-194: the argument check and "EnumData data = { targetPid, NULL, 0 }"
FindWindowByPid ==
  \E info \in FindArgLists :
    /\ query.pc = "idle"
    /\ query' = IF ~ ValidFindArgs(info)
                THEN [NoQuery EXCEPT !.pc = "done", !.info = info,
                                     !.err = "TypeError"]
                ELSE [NoQuery EXCEPT !.pc = "enum", !.info = info,
                        !.data = [pid |-> Uint32Value(info[1]),
                                  bestHwnd |-> NULL, bestArea |-> 0]]
    /\ UNCHANGED <<desktop, hookVars, raceVars, utilVars>>

\* line 196: EnumWindows calls EnumProc for the next window
EnumWindowsStep ==
  /\ query.pc = "enum"
  /\ query.pos < Len(desktop)
  /\ query' = [query EXCEPT !.pos = @ + 1,
                 !.data = EnumProc(query.pos + 1, @, desktop[query.pos + 1])]
  /\ UNCHANGED <<desktop, hookVars, raceVars, utilVars>>

\* lines 198-202: the result once EnumWindows has returned
FindWindowByPidResult ==
  /\ query.pc = "enum"
  /\ query.pos = Len(desktop)
  /\ query' = [query EXCEPT !.pc = "done",
                 !.result = IF query.data.bestHwnd # NULL
                            THEN JsBigInt(HwndValue(query.data.bestHwnd))
                            ELSE JsNull]
  /\ UNCHANGED <<desktop, hookVars, raceVars, utilVars>>

\* the call returns to its caller
FindReturn ==
  /\ query.pc = "done"
  /\ query' = NoQuery
  /\ UNCHANGED <<desktop, hookVars, raceVars, utilVars>>

InitFind ==
  /\ g_hookState = InitialState.g
  /\ heap = InitialState.heap
  /\ osHooks = InitialState.os
  /\ given = NoStart
  /\ call = Idle
  /\ desktop \in Desktops
  /\ query = NoQuery
  /\ ctl = CtlIdle
  /\ disp = DispIdle
  /\ act = ActIdle
  /\ dpi = DpiIdle

NextFind ==
  FindWindowByPid \/ EnumWindowsStep \/ FindWindowByPidResult \/ FindReturn

SpecFind == InitFind /\ [][NextFind]_vars

----------------------------------------------------------------------------
(* The calls as actions.  The JavaScript thread runs StartWinEventHook and *)
(* StopWinEventHook to completion, one call at a time.  With               *)
(* WINEVENT_OUTOFCONTEXT (lines 449, 460, 471, 482) the OS queues          *)
(* notifications and hands them to WinEventProc between two calls, also    *)
(* after the hooks were released.  A call is two steps: the call itself,   *)
(* which leaves its inputs, the state it started from and its outcome in   *)
(* `call`, and Return, after which the next call can start.                *)

Init ==
  /\ g_hookState = InitialState.g
  /\ heap = InitialState.heap
  /\ osHooks = InitialState.os
  /\ given = NoStart
  /\ call = Idle
  /\ desktop = <<>>
  /\ query = NoQuery
  /\ ctl = CtlIdle
  /\ disp = DispIdle
  /\ act = ActIdle
  /\ dpi = DpiIdle

\* operator new: any heap cell that is not allocated
FreeAddrs(hp) == {a \in Addrs : ~ hp[a].alloc}

Install(st) ==
  /\ g_hookState' = st.g
  /\ heap' = st.heap
  /\ osHooks' = st.os

\* the argument lists tried: every valid one, and one of each invalid shape
StartArgLists ==
  {<<JsNumber(p), JsFunction(f)>> : p \in Pids, f \in Callbacks}
    \cup { <<>>, <<JsNumber(1)>>, <<JsString, JsFunction(1)>>,
           <<JsNumber(1), JsString>>, <<JsFunction(1), JsNumber(1)>> }

AllFail == [i \in 1..4 |-> FALSE]

\* The cell new returns when no other thread holds a pointer: addresses are
\* only compared for identity, so the least free one stands for any.
LeastFreeAddr(hp) ==
  CHOOSE a \in FreeAddrs(hp) : \A b \in FreeAddrs(hp) : a <= b

StartWinEventHook ==
  \E info \in StartArgLists, oks \in [1..4 -> BOOLEAN] :
    LET pre == Snapshot
        \* line 432 runs after line 427: new can return the cell just deleted
        addr == LeastFreeAddr(StopExisting(pre @@ [trace |-> <<>>]).heap)
        r == StartBody(pre @@ [trace |-> <<>>], info, oks, addr)
    IN /\ call.op = "idle"
       \* no registration is made with invalid arguments
       /\ ~ ValidStartArgs(info) => oks = AllFail
       /\ Install(r.st)
       /\ given' = IF ValidStartArgs(info)
                   THEN [pid |-> info[1].val, cb |-> info[2].val,
                         old |-> IF pre.g = NULL THEN 0
                                 ELSE pre.heap[pre.g].jsCallback]
                   ELSE given
       /\ call' = [Idle EXCEPT !.op = "start", !.info = info, !.oks = oks,
                     !.pre = pre, !.err = r.err, !.trace = r.st.trace]
       /\ UNCHANGED <<findVars, raceVars, utilVars>>

StopWinEventHook ==
  LET pre == Snapshot
      r == StopBody(pre @@ [trace |-> <<>>])
  IN /\ call.op = "idle"
     /\ Install(r.st)
     /\ UNCHANGED given
     /\ call' = [Idle EXCEPT !.op = "stop", !.pre = pre, !.err = r.err,
                   !.trace = r.st.trace]
     /\ UNCHANGED <<findVars, raceVars, utilVars>>

\* the values an uninitialised DWORD can hold that matter here
Garbage == 0..MaxPid

\* a notification: the arguments of WinEventProc that it reads, whether the
\* window is gone by the time it runs, and the uninitialised value it would
\* then read (0 when the window exists and the value is overwritten)
Notifications ==
  { [event |-> e, hwnd |-> h, idObject |-> o, idChild |-> c, gone |-> d,
     garbage |-> x] :
      e \in EventCodes, h \in Hwnds, o \in {OBJID_WINDOW, OBJID_CLIENT},
      c \in {CHILDID_SELF, 1}, d \in BOOLEAN, x \in Garbage }

\* WinEventProc that clears the handler reference once it has delivered
WinEventProc_OneShot ==
  \E ev \in Notifications :
    LET c == WinEventProcBody(g_hookState, heap, ev)
    IN /\ call.op = "idle"
       /\ Deliverable(osHooks, ev.event)
       /\ ~ ev.gone => ev.garbage = 0
       /\ heap' = IF c.called # 0
                  THEN [heap EXCEPT ![g_hookState].jsCallback = 0]
                  ELSE heap
       /\ UNCHANGED <<g_hookState, osHooks, given>>
       /\ call' = [Idle EXCEPT !.op = "dispatch", !.ev = ev, !.pre = Snapshot,
                     !.called = c.called, !.obj = c.obj, !.trace = c.trace]
       /\ UNCHANGED <<findVars, raceVars, utilVars>>

\* lines 37-114, for one notification
WinEventProc ==
  \E ev \in Notifications :
    LET c == WinEventProcBody(g_hookState, heap, ev)
    IN /\ call.op = "idle"
       /\ Deliverable(osHooks, ev.event)
       /\ ~ ev.gone => ev.garbage = 0
       /\ UNCHANGED <<g_hookState, heap, osHooks, given>>
       /\ call' = [Idle EXCEPT !.op = "dispatch", !.ev = ev, !.pre = Snapshot,
                     !.called = c.called, !.obj = c.obj, !.trace = c.trace]
       /\ UNCHANGED <<findVars, raceVars, utilVars>>

\* the call returns to its caller
Return ==
  /\ call.op # "idle"
  /\ call' = Idle
  /\ UNCHANGED <<g_hookState, heap, osHooks, given>>
  /\ UNCHANGED <<findVars, raceVars, utilVars>>

Next == StartWinEventHook \/ StopWinEventHook \/ WinEventProc \/ Return

Spec == Init /\ [][Next]_vars

----------------------------------------------------------------------------
(* WinEventProc on an OS thread beside StartWinEventHook /                 *)
(* StopWinEventHook on the JavaScript thread, statement by statement.  No  *)
(* lock or atomic guards g_hookState (line 34) or the record it points to. *)

\* the statements of StopWinEventHook and StartWinEventHook
RaceStop ==
  /\ ctl.pc = "idle"
  /\ ctl' = [CtlIdle EXCEPT !.pc = "unhook", !.op = "stop"]
  /\ UNCHANGED <<g_hookState, heap, osHooks, disp, given, call, findVars, utilVars>>

\* lines 407-410: invalid arguments return at once
RaceStart ==
  \E info \in StartArgLists :
    /\ ctl.pc = "idle"
    /\ ctl' = IF ValidStartArgs(info)
              THEN [CtlIdle EXCEPT !.pc = "unhook", !.op = "start", !.info = info]
              ELSE ctl
    /\ UNCHANGED <<g_hookState, heap, osHooks, disp, given, call, findVars, utilVars>>

\* lines 413-425 and 507-523: the four UnhookWinEvent calls (StopWinEventHook
\* also stores NULL in each handle)
CtlUnhook ==
  /\ ctl.pc = "unhook"
  /\ IF g_hookState = NULL
     THEN /\ ctl' = IF ctl.op = "start" THEN [ctl EXCEPT !.pc = "new"] ELSE CtlIdle
          /\ UNCHANGED <<heap, osHooks>>
     ELSE LET rec == heap[g_hookState]
              st == [g |-> g_hookState, heap |-> heap, os |-> osHooks, trace |-> <<>>]
              u == UnhookIfSet(UnhookIfSet(UnhookIfSet(UnhookIfSet(st,
                     rec.hookHandle1), rec.hookHandle2), rec.hookHandle3),
                     rec.hookHandle4)
          IN /\ osHooks' = u.os
             /\ heap' = IF ctl.op = "stop"
                        THEN [heap EXCEPT ![g_hookState] =
                                [@ EXCEPT !.hookHandle1 = NULL, !.hookHandle2 = NULL,
                                          !.hookHandle3 = NULL, !.hookHandle4 = NULL]]
                        ELSE heap
             /\ ctl' = [ctl EXCEPT !.pc = "reset"]
  /\ UNCHANGED <<g_hookState, disp, given, call, findVars, utilVars>>

\* lines 426, 489, 524: g_hookState->jsCallback.Reset()
CtlReset ==
  /\ ctl.pc = "reset"
  /\ heap' = [heap EXCEPT ![g_hookState].jsCallback = 0]
  /\ ctl' = [ctl EXCEPT !.pc = "delete"]
  /\ UNCHANGED <<g_hookState, osHooks, disp, given, call, findVars, utilVars>>

\* lines 427, 490, 525: delete g_hookState
CtlDelete ==
  /\ ctl.pc = "delete"
  /\ heap' = [heap EXCEPT ![g_hookState] = FreeCell]
  /\ ctl' = [ctl EXCEPT !.pc = "null"]
  /\ UNCHANGED <<g_hookState, osHooks, disp, given, call, findVars, utilVars>>

\* lines 428, 491, 526: g_hookState = nullptr
CtlNull ==
  /\ ctl.pc = "null"
  /\ g_hookState' = NULL
  /\ ctl' = IF ctl.op = "start" THEN [ctl EXCEPT !.pc = "new"] ELSE CtlIdle
  /\ UNCHANGED <<heap, osHooks, disp, given, call, findVars, utilVars>>

\* line 432: g_hookState = new HookState(), any free cell, value-initialised
CtlNew ==
  \E addr \in FreeAddrs(heap) :
    /\ ctl.pc = "new"
    /\ g_hookState' = addr
    /\ heap' = [heap EXCEPT ![addr] = [FreeCell EXCEPT !.alloc = TRUE]]
    /\ ctl' = [ctl EXCEPT !.pc = "fill"]
    /\ UNCHANGED <<osHooks, disp, given, call, findVars, utilVars>>

\* lines 433-438: targetPid, jsCallback, and NULL in the four handles
CtlFill ==
  /\ ctl.pc = "fill"
  /\ heap' = [heap EXCEPT ![g_hookState] =
                [@ EXCEPT !.targetPid = Uint32Value(ctl.info[1]),
                          !.jsCallback = Persistent(ctl.info[2])]]
  /\ ctl' = [ctl EXCEPT !.pc = "hook"]
  /\ UNCHANGED <<g_hookState, osHooks, disp, given, call, findVars, utilVars>>

\* lines 440-483: the four SetWinEventHook calls
CtlHook ==
  \E oks \in [1..4 -> BOOLEAN] :
    LET st == [g |-> g_hookState, heap |-> heap, os |-> osHooks, trace |-> <<>>]
        r == RegisterHooks(st, oks)
    IN /\ ctl.pc = "hook"
       /\ heap' = r.heap
       /\ osHooks' = r.os
       /\ ctl' = [ctl EXCEPT !.pc = "check", !.oks = oks]
       /\ UNCHANGED <<g_hookState, disp, given, call, findVars, utilVars>>

\* lines 487-500: on failure go on to lines 489-491, else return
CtlCheck ==
  /\ ctl.pc = "check"
  /\ ctl' = IF AllHooksFailed(heap[g_hookState])
            THEN [ctl EXCEPT !.pc = "reset", !.op = "failed"]
            ELSE CtlIdle
  /\ UNCHANGED <<g_hookState, heap, osHooks, disp, given, call, findVars, utilVars>>

\* The notifications tried beside a start or stop: in and out of scope, the
\* foreground code and another mapped code, for existing windows.
RaceNotifications ==
  { n \in Notifications :
      /\ n.event \in {EVENT_SYSTEM_FOREGROUND, EVENT_SYSTEM_MOVESIZEEND}
      /\ n.idChild = CHILDID_SELF
      /\ ~ n.gone /\ n.garbage = 0 }

\* "g_hookState->" after line 46: the compiled code uses the pointer it
\* loaded at line 46 or loads g_hookState again.
Pointers == {disp.p, g_hookState}

\* what the access through ptr is: of a live record, of a deleted one, or
\* through a null pointer
FaultOf(ptr) ==
  IF ptr = NULL THEN "null"
  ELSE IF ~ heap[ptr].alloc THEN "freed"
  ELSE "none"

\* the values a read of the field can give: the field of a live record, and
\* anything for a deleted record or a null pointer
ReadTargetPid(ptr) ==
  IF FaultOf(ptr) = "none" THEN {heap[ptr].targetPid} ELSE 0..MaxPid
ReadCallback(ptr) ==
  IF FaultOf(ptr) = "none" THEN {heap[ptr].jsCallback} ELSE 0..MaxCallback

Faulted(ptr) == IF FaultOf(ptr) # "none" THEN FaultOf(ptr) ELSE disp.fault

\* line 46, and GetWindowThreadProcessId of line 53 or 73; the OS calls
\* WinEventProc here while a registration is live
DispEnter ==
  \E ev \in RaceNotifications :
    /\ disp.pc = "idle"
    /\ osHooks # {}
    /\ Deliverable(osHooks, ev.event)
    /\ disp' = IF Dropped(g_hookState, ev.idObject, ev.idChild)
               THEN [DispIdle EXCEPT !.ev = ev]
               ELSE [DispIdle EXCEPT
                       !.pc = IF ev.event = EVENT_SYSTEM_FOREGROUND
                              THEN "fg57" ELSE "pid74",
                       !.ev = ev, !.p = g_hookState,
                       !.windowPid = GetWindowThreadProcessId(ev.hwnd, ev.gone,
                                                              ev.garbage)]
    /\ UNCHANGED <<g_hookState, heap, osHooks, ctl, given, call, findVars, utilVars>>

\* line 74 and the switch of lines 80-101
DispTargetPid ==
  \E ptr \in Pointers :
    \E pid \in ReadTargetPid(ptr) :
      /\ disp.pc = "pid74"
      /\ disp' = [disp EXCEPT
                    !.fault = Faulted(ptr),
                    !.pc = IF disp.windowPid # pid \/ EventTypeOf(disp.ev.event) = ""
                           THEN "idle" ELSE "cb104"]
      /\ UNCHANGED <<g_hookState, heap, osHooks, ctl, given, call, findVars, utilVars>>

\* lines 57-58 and 104-105: jsCallback.IsEmpty(), jsCallback.Env()
DispIsEmpty ==
  \E ptr \in Pointers :
    \E cb \in ReadCallback(ptr) :
      /\ disp.pc \in {"fg57", "cb104"}
      /\ disp' = [disp EXCEPT
                    !.fault = Faulted(ptr),
                    !.pc = IF IsEmpty(cb) THEN "idle"
                           ELSE IF disp.pc = "fg57" THEN "call66" ELSE "call112"]
      /\ UNCHANGED <<g_hookState, heap, osHooks, ctl, given, call, findVars, utilVars>>

\* lines 66 and 112: g_hookState->jsCallback.Call({ eventObj })
DispCall ==
  \E ptr \in Pointers :
    \E cb \in ReadCallback(ptr) :
      LET eventObj ==
            IF disp.pc = "call66"
            THEN [type |-> "foreground", hwnd |-> HwndValue(disp.ev.hwnd),
                  pid |-> disp.windowPid]
            ELSE [type |-> EventTypeOf(disp.ev.event),
                  hwnd |-> HwndValue(disp.ev.hwnd)]
      IN /\ disp.pc \in {"call66", "call112"}
         /\ disp' = [disp EXCEPT !.fault = Faulted(ptr), !.pc = "idle",
                       !.called = Call(cb, eventObj).called,
                       !.obj = Call(cb, eventObj).obj]
         /\ UNCHANGED <<g_hookState, heap, osHooks, ctl, given, call, findVars, utilVars>>

NextRace ==
  \/ RaceStop \/ RaceStart \/ CtlUnhook \/ CtlReset \/ CtlDelete \/ CtlNull
  \/ CtlNew \/ CtlFill \/ CtlHook \/ CtlCheck
  \/ DispEnter \/ DispTargetPid \/ DispIsEmpty \/ DispCall

SpecRace == Init /\ [][NextRace]_vars

----------------------------------------------------------------------------
(* FindWindowByPid against its description.                                *)

\* the window passes the four tests for the process pid
Qualifies(w, pid) ==
  w.visible /\ w.pid = pid /\ ~ w.tool /\ w.titleLen > 0

\* the area of the window's outer rectangle, 0 when it cannot be read
OuterArea(w) ==
  IF w.rectOk
  THEN (w.rect.right - w.rect.left) * (w.rect.bottom - w.rect.top)
  ELSE 0

\* the handles of the windows of desktop d that qualify for pid
Candidates(d, pid) == {i \in 1..Len(d) : Qualifies(d[i], pid)}

\* i is the first candidate of maximum area among the candidates cs
FirstLargest(d, cs, i) ==
  /\ i \in cs
  /\ \A j \in cs : OuterArea(d[j]) <= OuterArea(d[i])
  /\ \A j \in cs : OuterArea(d[j]) = OuterArea(d[i]) => i <= j

FindDone == query.pc = "done" /\ ValidFindArgs(query.info)
QueryPid == query.info[1].val

----------------------------------------------------------------------------
(* ForceActivateWindow (lines 348-401).  The OS's answers during one call  *)
(* are the record os: whether the handle is a window, the foreground       *)
(* window and its thread, the calling thread, whether the window is        *)
(* minimized, and whether the attach and the activation succeed.  The call *)
(* works on a = [links, trace, result, err, ...]: the input links the OS   *)
(* holds, as pairs <<idAttach, idAttachTo>>, and the OS calls that change  *)
(* something, in the order they were made.                                 *)

Threads == 1..MaxThread

\* Napi::BigInt::Int64Value and reinterpret_cast<HWND> (lines 356-358): the
\* handle whose value crossed the boundary; handles are 64-bit values, so
\* nothing is lost
HwndOf(v) == v.val - 100

\* line 351, negated
ValidHwndArgs(info) == ~ (Len(info) < 1 \/ info[1].kind # "bigint")

HwndArgLists ==
  {<<JsBigInt(HwndValue(h))>> : h \in Hwnds} \cup {<<>>, <<JsString>>}

ActivateOs ==
  { e \in [isWindow : BOOLEAN, fgHwnd : {NULL} \cup Hwnds,
           fgThreadId : 0..MaxThread, currentThreadId : Threads,
           iconic : BOOLEAN, attachOk : BOOLEAN, foregroundOk : BOOLEAN] :
      e.fgHwnd = NULL => e.fgThreadId = 0 }

OsCall(a, name, arg, ret) ==
  [a EXCEPT !.trace = Append(@, [call |-> name, arg |-> arg, ret |-> ret])]

\* AttachThreadInput(idAttach, idAttachTo, fAttach): with fAttach TRUE the
\* OS links the two threads' input or refuses (ok); with FALSE it removes
\* the link.  Returns <<a', result>>.
AttachThreadInput(a, idAttach, idAttachTo, fAttach, ok) ==
  LET link == <<idAttach, idAttachTo>>
      ret == IF fAttach THEN ok ELSE link \in a.links
      b == OsCall(a, "AttachThreadInput", <<idAttach, idAttachTo, fAttach>>, ret)
  IN << [b EXCEPT !.links = IF fAttach
                            THEN (IF ok THEN @ \cup {link} ELSE @)
                            ELSE @ \ {link}],
        ret >>

\* lines 376-379: "bool attached = false; if (fgThreadId != 0 && ...)"
AttachIfOther(a, fgThreadId, currentThreadId, ok) ==
  IF fgThreadId # 0 /\ fgThreadId # currentThreadId
  THEN AttachThreadInput(a, currentThreadId, fgThreadId, TRUE, ok)
  ELSE <<a, FALSE>>

\* lines 381-389: restore if minimized, then bring to the foreground
Activate(a, hwnd, e) ==
  LET a1 == IF e.iconic THEN OsCall(a, "ShowWindow", hwnd, TRUE) ELSE a
      a2 == OsCall(a1, "SetForegroundWindow", hwnd, e.foregroundOk)
      a3 == OsCall(a2, "BringWindowToTop", hwnd, TRUE)
  IN OsCall(a3, "SetFocus", hwnd, TRUE)

\* DetachIfAttached that leaves the link in place
DetachIfAttached_Never(a, attached, fgThreadId, currentThreadId) ==
  a

\* lines 391-394: "if (attached) { AttachThreadInput(..., FALSE); }"
DetachIfAttached(a, attached, fgThreadId, currentThreadId) ==
  IF attached
  THEN AttachThreadInput(a, currentThreadId, fgThreadId, FALSE, TRUE)[1]
  ELSE a

\* lines 348-401
ForceActivateBody(a, info, e) ==
  IF ~ ValidHwndArgs(info)
  THEN [a EXCEPT !.err = "TypeError", !.result = FALSE]
  ELSE LET hwnd == HwndOf(info[1]) IN
    IF ~ e.isWindow
    THEN [a EXCEPT !.result = FALSE]
    ELSE LET fgThreadId == IF e.fgHwnd # NULL THEN e.fgThreadId ELSE 0
             att == AttachIfOther(a, fgThreadId, e.currentThreadId, e.attachOk)
             a1 == Activate(att[1], hwnd, e)
             a2 == DetachIfAttached(a1, att[2], fgThreadId, e.currentThreadId)
             newFgHwnd == IF e.foregroundOk THEN hwnd ELSE e.fgHwnd
         IN [a2 EXCEPT !.result = (newFgHwnd = hwnd)]

ForceActivateWindow ==
  \E info \in HwndArgLists, e \in ActivateOs :
    /\ act.pc = "idle"
    /\ act' = ForceActivateBody(
                [ActIdle EXCEPT !.pc = "done", !.info = info, !.os = e,
                                !.links = act.links],
                info, e)
    /\ UNCHANGED <<hookVars, findVars, raceVars, dpi>>

\* the call returns to its caller; the links the OS holds stay as they are
ActivateReturn ==
  /\ act.pc = "done"
  /\ act' = [ActIdle EXCEPT !.links = act.links]
  /\ UNCHANGED <<hookVars, findVars, raceVars, dpi>>

NextActivate == ForceActivateWindow \/ ActivateReturn

SpecActivate == Init /\ [][NextActivate]_vars

----------------------------------------------------------------------------
(* GetDpiScaleForHwnd (lines 298-330).  The OS's answers during one call   *)
(* are the record os: whether user32.dll is loaded, whether it exports     *)
(* GetDpiForWindow, and the values the per-window and the system query     *)
(* give (0 is what a query gives for a handle that is no window).  The     *)
(* result is a double, kept as the fraction num/den.                       *)

BaselineDpi == 96
DpiValues == {0, 96, 120, 144, 192}

\* "dpi / 96.0" (lines 322, 329)
ScaleOf(d) == [num |-> d, den |-> BaselineDpi]
\* the literal 1.0 (line 312)
One == [num |-> 1, den |-> 1]
\* equality of two doubles
SameNumber(x, y) == x.num * y.den = y.num * x.den

DpiOs ==
  { e \in [user32 : BOOLEAN, hasGetDpiForWindow : BOOLEAN,
           windowDpi : DpiValues, systemDpi : DpiValues] :
      e.hasGetDpiForWindow => e.user32 }

\* QueryDpi that goes to the system query without looking for GetDpiForWindow
QueryDpi_SystemOnly(d, hwnd, e) ==
  LET d1 == OsCall(d, "GetDC", hwnd, TRUE)
      d2 == OsCall(d1, "GetDeviceCaps", "LOGPIXELSX", e.systemDpi)
      d3 == OsCall(d2, "ReleaseDC", hwnd, TRUE)
  IN [d3 EXCEPT !.result = JsNumber(ScaleOf(e.systemDpi))]

\* lines 315-329: GetDpiForWindow if user32 exports it, else the system DPI
QueryDpi(d, hwnd, e) ==
  LET d0 == OsCall(d, "GetProcAddress", "GetDpiForWindow", e.hasGetDpiForWindow)
  IN IF e.hasGetDpiForWindow
     THEN LET d1 == OsCall(d0, "GetDpiForWindow", hwnd, e.windowDpi)
          IN [d1 EXCEPT !.result = JsNumber(ScaleOf(e.windowDpi))]
     ELSE LET d1 == OsCall(d0, "GetDC", hwnd, TRUE)
              d2 == OsCall(d1, "GetDeviceCaps", "LOGPIXELSX", e.systemDpi)
              d3 == OsCall(d2, "ReleaseDC", hwnd, TRUE)
          IN [d3 EXCEPT !.result = JsNumber(ScaleOf(e.systemDpi))]

\* lines 298-330
GetDpiScaleBody(d, info, e) ==
  IF ~ ValidHwndArgs(info)
  THEN [d EXCEPT !.err = "TypeError", !.result = JsNull]
  ELSE LET hwnd == HwndOf(info[1])
           d0 == OsCall(d, "GetModuleHandleW", "user32.dll", e.user32)
       IN IF ~ e.user32
          THEN [d0 EXCEPT !.result = JsNumber(One)]
          ELSE QueryDpi(d0, hwnd, e)

GetDpiScaleForHwnd ==
  \E info \in HwndArgLists, e \in DpiOs :
    /\ dpi.pc = "idle"
    /\ dpi' = GetDpiScaleBody(
                [DpiIdle EXCEPT !.pc = "done", !.info = info, !.os = e],
                info, e)
    /\ UNCHANGED <<hookVars, findVars, raceVars, act>>

\* the call returns to its caller
DpiReturn ==
  /\ dpi.pc = "done"
  /\ dpi' = DpiIdle
  /\ UNCHANGED <<hookVars, findVars, raceVars, act>>

NextDpi == GetDpiScaleForHwnd \/ DpiReturn

SpecDpi == Init /\ [][NextDpi]_vars

----------------------------------------------------------------------------
(* The subscription's two states, as the specification names them.         *)

\* Stopped: no record, no handler, no live hook
Stopped ==
  /\ g_hookState = NULL
  /\ \A a \in Addrs : heap[a] = FreeCell
  /\ osHooks = {}

\* Live: a record with a handler and at least one hook, each of them live
Live ==
  /\ g_hookState # NULL
  /\ heap[g_hookState].alloc
  /\ ~ IsEmpty(heap[g_hookState].jsCallback)
  /\ Handles(heap[g_hookState]) # {}
  /\ Handles(heap[g_hookState]) \subseteq LiveTokens(osHooks)

ValidStart == call.op = "start" /\ ValidStartArgs(call.info)
InvalidStart == call.op = "start" /\ ~ ValidStartArgs(call.info)
WasLive == call.pre.g # NULL
InScope == call.ev.idObject = OBJID_WINDOW /\ call.ev.idChild = CHILDID_SELF

----------------------------------------------------------------------------
(* Claims.                                                                 *)

\* C1: after start(p1,h1); start(p2,h2), whatever the registrations of the
\* second start did, no notification dispatched later invokes h1: a
\* dispatch invokes no handler or the handler of the latest start.
C1_NoStaleHandler ==
  call.op = "dispatch" => call.called \in {0, given.cb}

\* a dispatch after a start that replaced another handler, delivered to the new one
C1_Witness ==
  /\ call.op = "dispatch"
  /\ given.old # 0 /\ given.old # given.cb
  /\ call.called = given.cb

\* C2: after every completed start or stop call the subscription is fully
\* torn down or fully live; never a handler without a live hook, nor a live
\* hook without a handler.
C2_StoppedOrLive == Stopped \/ Live

\* a start in which some but not all registrations failed, ending Live
C2_Witness ==
  /\ ValidStart /\ Live
  /\ \E i \in 1..4 : ~ call.oks[i]
  /\ \E i \in 1..4 : call.oks[i]

\* C3: a start whose four registrations all fail ends Stopped with an error
\* surfaced; a start with one to four successful registrations ends Live
\* with no error.
C3_StartOutcome ==
  ValidStart =>
    IF call.oks = AllFail
    THEN Stopped /\ call.err = "Error"
    ELSE Live /\ call.err = "none"

\* a start issued while Live whose four registrations all failed
C3_Witness ==
  ValidStart /\ WasLive /\ call.oks = AllFail /\ call.err = "Error"

\* C4: stop raises no error and leaves no live hook; on a stopped
\* subscription it changes nothing; on a live one it releases every hook
\* and clears the handler.
C4_StopIdempotent ==
  call.op = "stop" =>
    /\ call.err = "none"
    /\ osHooks = {}
    /\ Stopped
    /\ ~ WasLive => Snapshot = call.pre

\* a stop made on a subscription that an earlier call had already stopped
C4_Witness ==
  call.op = "stop" /\ ~ WasLive /\ given # NoStart

\* C5: a foreground notification in window/self scope is delivered whatever
\* process owns the window; any other notification is delivered only if the
\* process owning its window is the targetPid of the latest successful start.
C5_OwnershipFilter ==
  call.op = "dispatch" =>
    /\ (call.ev.event = EVENT_SYSTEM_FOREGROUND /\ InScope /\ Live)
         => call.called # 0
    /\ (call.ev.event # EVENT_SYSTEM_FOREGROUND /\ call.called # 0)
         => OwnerOf(call.ev.hwnd) = given.pid

\* C6: every event object handed to the handler has one of the seven types,
\* and a notification whose code is none of the seven mapped codes invokes
\* no handler.
SevenKinds == {"foreground", "locationchange", "movestart", "moveend",
               "minimizestart", "minimizeend", "destroy"}
MappedCodes == EventCodes \ {EVENT_OBJECT_SHOW}
C7_NoLeak ==
  /\ LiveTokens(osHooks) =
       (IF g_hookState = NULL THEN {} ELSE Handles(heap[g_hookState]))
  /\ Cardinality(osHooks) = Cardinality(LiveTokens(osHooks))

\* a restart: a start on a subscription that held four hooks, ending with hooks
C7_Witness ==
  /\ ValidStart /\ WasLive
  /\ Cardinality(call.pre.os) = 4
  /\ osHooks # {}

\* C9: a start call with invalid arguments reports an error and leaves the
\* record, the handler and the hooks as they were.
C9_InvalidArgs ==
  InvalidStart => (call.err = "TypeError" /\ Snapshot = call.pre)

\* an invalid start call made while Live
C9_Witness ==
  InvalidStart /\ WasLive /\ Live

\* C10 as stated: if a window qualifies the result is the first qualifying
\* window of maximum area, and the result is not-found only if none does.
C10_LargestQualifying ==
  FindDone =>
    LET cs == Candidates(desktop, QueryPid) IN
    IF cs = {} THEN query.result = JsNull
    ELSE \E i \in cs : /\ FirstLargest(desktop, cs, i)
                       /\ query.result = JsBigInt(HwndValue(i))

\* C10 amended: the candidates are the qualifying windows of area greater
\* than zero; the result is the first of them of maximum area, and
\* not-found exactly if there is none.
C10_LargestQualifyingNonEmpty ==
  FindDone =>
    LET cs == {i \in Candidates(desktop, QueryPid) : OuterArea(desktop[i]) > 0} IN
    IF cs = {} THEN query.result = JsNull
    ELSE \E i \in cs : /\ FirstLargest(desktop, cs, i)
                       /\ query.result = JsBigInt(HwndValue(i))

\* two qualifying windows of the same positive area: the first is the result
C10_Witness ==
  /\ FindDone
  /\ Len(desktop) = 2
  /\ Candidates(desktop, QueryPid) = {1, 2}
  /\ OuterArea(desktop[1]) = OuterArea(desktop[2])
  /\ OuterArea(desktop[1]) > 0
  /\ query.result = JsBigInt(HwndValue(1))

\* C8: WinEventProc interleaved with a stop or a restarting start never
\* reads the record after it was freed nor through a null pointer.
C8_NoUseAfterFree == disp.fault = "none"

----------------------------------------------------------------------------
(* ForceActivateWindow.                                                    *)

\* the OS calls that attach, restore or bring to the foreground
StepCalls ==
  {"AttachThreadInput", "ShowWindow", "SetForegroundWindow",
   "BringWindowToTop", "SetFocus"}

IsAttach(c) == c.call = "AttachThreadInput" /\ c.arg[3] /\ c.ret
IsDetachOf(c, d) ==
  /\ d.call = "AttachThreadInput" /\ ~ d.arg[3]
  /\ d.arg[1] = c.arg[1] /\ d.arg[2] = c.arg[2]

\* C11: when forceActivateWindow returns, no input link is applied; every
\* successful attach of the call is followed by a detach of the same two
\* threads; and for arguments that are not a handle, or a handle that is
\* not a window, the result is false and no attach, restore or foreground
\* call was made.
C11_LinkReleased ==
  act.pc = "done" =>
    /\ act.links = {}
    /\ \A i \in 1..Len(act.trace) :
         IsAttach(act.trace[i]) =>
           \E j \in (i + 1)..Len(act.trace) : IsDetachOf(act.trace[i], act.trace[j])
    /\ (~ ValidHwndArgs(act.info) \/ ~ act.os.isWindow) =>
         /\ act.result = FALSE
         /\ \A i \in 1..Len(act.trace) : act.trace[i].call \notin StepCalls

\* the attach succeeded, the window was restored, and the activation failed
C11_Witness ==
  /\ act.pc = "done"
  /\ \E i \in 1..Len(act.trace) : IsAttach(act.trace[i])
  /\ act.os.iconic /\ ~ act.os.foregroundOk /\ act.result = FALSE

----------------------------------------------------------------------------
(* GetDpiScaleForHwnd.                                                     *)

\* the positions in the call's trace at which the OS call `name` was made
CallsOf(name) == {i \in 1..Len(dpi.trace) : dpi.trace[i].call = name}

\* GetDpiForWindow and GetDC are exports of user32.dll: without the module
\* neither the per-window nor the system query can be made
NoDpiFacility == ~ dpi.os.user32
PerWindowAbsent == ~ dpi.os.hasGetDpiForWindow

\* C12: getDpiScaleForHwnd looks for the per-window query before it makes
\* the system query, makes the system query only when the per-window one is
\* absent, returns exactly 1.0 when neither facility is available, and
\* otherwise returns dpi/96 for the dpi of the query it made.
C12_DpiFallback ==
  (dpi.pc = "done" /\ ValidHwndArgs(dpi.info)) =>
    /\ \A i \in CallsOf("GetDC") :
         \E j \in CallsOf("GetProcAddress") : j < i /\ ~ dpi.trace[j].ret
    /\ CallsOf("GetDC") # {} => (PerWindowAbsent /\ CallsOf("GetDpiForWindow") = {})
    /\ NoDpiFacility =>
         /\ dpi.result.kind = "number"
         /\ dpi.result.val.num = dpi.result.val.den
         /\ CallsOf("GetDpiForWindow") \cup CallsOf("GetDC") = {}
    /\ ~ NoDpiFacility =>
         /\ dpi.result.kind = "number"
         /\ IF PerWindowAbsent
            THEN /\ CallsOf("GetDC") # {}
                 /\ SameNumber(dpi.result.val, ScaleOf(dpi.os.systemDpi))
            ELSE /\ CallsOf("GetDpiForWindow") # {}
                 /\ SameNumber(dpi.result.val, ScaleOf(dpi.os.windowDpi))

\* no facility is available and the call returned 1.0
C12_Witness ==
  /\ dpi.pc = "done" /\ ValidHwndArgs(dpi.info) /\ NoDpiFacility
  /\ SameNumber(dpi.result.val, One)

----------------------------------------------------------------------------
(* The order of the OS calls within one start.                             *)

\* the positions in the call's trace at which `name` was called
TraceCalls(name) == {i \in 1..Len(call.trace) : call.trace[i].call = name}

\* the positions at which the new subscription takes a handler or a hook
InstallSteps == TraceCalls("Persistent") \cup TraceCalls("SetWinEventHook")

\* C13: in a start call made while Live, every live hook token of the old
\* subscription is released, and the old handler reference is cleared,
\* before the new handler reference is taken and before the first hook of
\* the new subscription is registered.
C13_ReplaceBeforeInstall ==
  (ValidStart /\ WasLive) =>
    /\ \A t \in LiveTokens(call.pre.os) :
         \E i \in TraceCalls("UnhookWinEvent") :
           /\ call.trace[i].arg = t
           /\ \A j \in InstallSteps : i < j
    /\ \E i \in TraceCalls("Reset") :
         /\ call.trace[i].arg = call.pre.heap[call.pre.g].jsCallback
         /\ \A j \in InstallSteps : i < j

\* a start that replaced a subscription of two hooks or more by a Live one
C13_Witness ==
  /\ ValidStart /\ WasLive /\ Live
  /\ Cardinality(LiveTokens(call.pre.os)) >= 2
  /\ call.pre.heap[call.pre.g].jsCallback # heap[g_hookState].jsCallback

----------------------------------------------------------------------------
(* Delivery.                                                               *)

\* the subscription the dispatch ran on
Subscription == call.pre.heap[call.pre.g]

\* a notification that qualifies: window/self scope, and the foreground
\* code or a mapped code for a window the target process owns
QualifyingNotification ==
  /\ InScope
  /\ \/ call.ev.event = EVENT_SYSTEM_FOREGROUND
     \/ /\ call.ev.event \in MappedCodes
        /\ OwnerOf(call.ev.hwnd) = Subscription.targetPid

C15_ScopeDiscard ==
  (call.op = "dispatch" /\ ~ InScope) =>
    /\ call.called = 0
    /\ TraceCalls("Call") = {}

\* while Live, a foreground notification for a child of a window of the
\* target process was discarded
C15_Witness ==
  /\ call.op = "dispatch" /\ Live
  /\ call.ev.event = EVENT_SYSTEM_FOREGROUND
  /\ call.ev.idObject = OBJID_WINDOW /\ call.ev.idChild # CHILDID_SELF
  /\ ~ call.ev.gone /\ OwnerOf(call.ev.hwnd) = Subscription.targetPid
  /\ call.called = 0

\* C16: every event object handed to the handler carries the handle of the
\* notification's window; a "foreground" object also carries the pid of the
\* process that owns the window, and an object of another type has no pid.
C16_EventShape ==
  (call.op = "dispatch" /\ call.called # 0) =>
    /\ call.obj.hwnd = HwndValue(call.ev.hwnd)
    /\ IF call.obj.type = "foreground"
       THEN /\ DOMAIN call.obj = {"type", "hwnd", "pid"}
            /\ call.obj.pid = OwnerOf(call.ev.hwnd)
       ELSE DOMAIN call.obj = {"type", "hwnd"}

\* C17: after a start whose four registrations succeeded, every registered
\* range has eventMin <= eventMax, and every one of the seven mapped codes
\* lies within a registered range.
C17_RangesCover ==
  (ValidStart /\ \A i \in DOMAIN call.oks : call.oks[i]) =>
    /\ Cardinality(osHooks) = 4
    /\ \A r \in osHooks : r.eventMin <= r.eventMax
    /\ \A code \in MappedCodes : \E r \in osHooks : Covers(r, code)

\* C18: a stop, and a start whose four registrations all failed, leave the
\* Stopped state, and a notification dispatched in the Stopped state invokes
\* no handler.
C18_StoppedDiscards ==
  /\ (call.op = "stop" \/ (ValidStart /\ call.oks = AllFail)) => Stopped
  /\ (call.op = "dispatch" /\ ~ WasLive) =>
       /\ call.called = 0
       /\ TraceCalls("Call") = {}

\* a foreground notification in window/self scope, queued while a
\* subscription existed, was dispatched in the Stopped state and discarded
C18_Witness ==
  /\ call.op = "dispatch" /\ Stopped /\ given # NoStart
  /\ call.ev.event = EVENT_SYSTEM_FOREGROUND /\ InScope
  /\ call.called = 0

\* C19: a dispatch, whether it delivers or discards, leaves the global
\* pointer, the record (targetPid, handler reference, the four handles) and
\* the OS registrations as they were before it.
C19_DispatchReadsOnly ==
  call.op = "dispatch" => Snapshot = call.pre

\* while Live, a notification other than foreground was delivered
C19_Witness ==
  /\ call.op = "dispatch" /\ Live
  /\ call.ev.event # EVENT_SYSTEM_FOREGROUND
  /\ call.called # 0

====
